---- MODULE Spec2Model ----
(***************************************************************************)
(* Model of src/app.py, the "Top10 Winners & Losers" Streamlit dashboard.  *)
(*                                                                         *)
(* Every user interaction re-runs the script top to bottom.  One run       *)
(* fetches prices (fetch_prices), computes trailing-window returns         *)
(* (compute_returns), ranks them (nlargest / nsmallest), compares the      *)
(* winners with the CSV snapshot of the previous run and overwrites it,    *)
(* and finally updates the selection tracking kept in st.session_state.    *)
(*                                                                         *)
(* Values: a missing price (NaN) is NaN; Python's None is None for         *)
(* tickers and NoDate for dates.  A DataFrame of prices is a record        *)
(* [columns, index, data]; a return is the exact rational cur/prev - 1     *)
(* kept as [num, den]; the displayed Return is an integer number of        *)
(* hundredths of a percent.                                                *)
(***************************************************************************)
EXTENDS Integers, Sequences, FiniteSets, TLC

VARIABLES
    pc,             \* where the script (or the function under check) stands
    fill_method,    \* pandas build: pct_change pads missing values, or not
    tickers,        \* fetch_prices: the ticker list passed in
    responses,      \* fetch_prices: what yf.download answers, per batch
    prices,         \* the price matrix
    window,         \* the "Trading day window" slider
    returns,        \* compute_returns: the returns Series
    asof_date,      \* compute_returns: the as-of date
    df,             \* the Ticker/Return dataframe
    top,            \* df.nlargest(10, "Return")
    bot,            \* df.nsmallest(10, "Return")
    index_choice,   \* the "Select Index" radio
    files,          \* previous_top10_<index>.csv, per index
    new_entries,    \* the tickers of the "New Top10 Winners" alert
    session_state,  \* st.session_state
    sel_top,        \* selection reported by the Winners grid
    sel_bot,        \* selection reported by the Losers grid
    ticker_choice,  \* the ticker handed to the chart
    grid_changed    \* the grids the run found changed (lines 172, 177)

vars == <<pc, fill_method, tickers, responses, prices, window, returns,
          asof_date, df, top, bot, index_choice, files, new_entries,
          session_state, sel_top, sel_bot, ticker_choice, grid_changed>>

(***************************************************************************)
(* Bounds of the model.                                                    *)
(***************************************************************************)
MaxRows == 3        \* rows (trading days) of a price matrix
MaxWindow == 2      \* largest slider value
TopN == 2           \* size of the ranked lists (10 in the program)
ChunkSize == 2      \* tickers per download batch (25 in the program)
MaxDfLen == 4       \* rows of a returns table handed to the ranking

PriceValues == {1, 3}
NaN == 0
None == "None"
NoDate == 0
Missing == "Missing"

Universe == <<"A", "B", "C">>
Indices == {"Nasdaq-100", "S&P 500"}

(***************************************************************************)
(* Helpers on sequences.                                                   *)
(***************************************************************************)
Range(s) == {s[i] : i \in DOMAIN s}

SetMax(S) == CHOOSE x \in S : \A y \in S : y <= x

(***************************************************************************)
(* DataFrames of prices.                                                   *)
(***************************************************************************)
\* pd.DataFrame()
EmptyFrame == [columns |-> <<>>, index |-> <<>>, data |-> <<>>]

\* DataFrame.empty: some axis has length 0
IsEmpty(frame) == frame.columns = <<>> \/ frame.index = <<>>

\* number of non-missing values of a column
NonMissing(frame, t) ==
    Cardinality({i \in DOMAIN frame.index : frame.data[t][i] # NaN})

SelectColumns(frame, cols) ==
    [columns |-> cols, index |-> frame.index,
     data |-> [t \in Range(cols) |-> frame.data[t]]]

\* DataFrame.dropna(axis=1, how="all")
dropna_all(frame) ==
    SelectColumns(frame, SelectSeq(frame.columns, LAMBDA t : NonMissing(frame, t) > 0))

\* dropna with the threshold one too low
dropna_thresh_below(frame, n) ==
    SelectColumns(frame, SelectSeq(frame.columns, LAMBDA t : NonMissing(frame, t) >= n - 1))

\* DataFrame.dropna(axis=1, thresh=n): keep columns with at least n non-missing
dropna_thresh(frame, n) ==
    SelectColumns(frame, SelectSeq(frame.columns, LAMBDA t : NonMissing(frame, t) >= n))

\* fillna(method="pad"): the last non-missing value at or before row i
RECURSIVE Pad(_, _)
Pad(col, i) ==
    IF i = 0 THEN NaN
    ELSE IF col[i] # NaN THEN col[i] ELSE Pad(col, i - 1)

\* The value pct_change reads at row i of a column.  pandas before 3.0 pads
\* the column first (fill_method="pad" by default); pandas 3.0 does not.
Filled(col, i, fill) == IF fill = "pad" THEN Pad(col, i) ELSE col[i]

\* valid.pct_change(window).iloc[-1].dropna(): one entry per column whose
\* change at the last row is not NaN, in column order.
pct_change_last(valid, w, fill) ==
    LET n == Len(valid.index)
        cur(t) == Filled(valid.data[t], n, fill)
        prev(t) == IF n - w >= 1 THEN Filled(valid.data[t], n - w, fill) ELSE NaN
        kept == SelectSeq(valid.columns, LAMBDA t : cur(t) # NaN /\ prev(t) # NaN)
    IN  [i \in DOMAIN kept |->
            [Ticker |-> kept[i], num |-> cur(kept[i]) - prev(kept[i]),
             den |-> prev(kept[i])]]

Sentinel == [returns |-> <<>>, asof_date |-> NoDate]

\* compute_returns without the `valid.empty` check
compute_returns_unchecked(p, w, fill) ==
    LET p1 == dropna_all(p)
    IN  IF Len(p1.index) <= w THEN Sentinel
        ELSE [returns |-> pct_change_last(dropna_thresh(p1, w + 1), w, fill),
              asof_date |-> SetMax(Range(p1.index))]

compute_returns(p, w, fill) ==
    LET p1 == dropna_all(p)
    IN  IF Len(p1.index) <= w THEN Sentinel
        ELSE LET valid == dropna_thresh(p1, w + 1)
             IN  IF IsEmpty(valid) THEN Sentinel
                 ELSE [returns |-> pct_change_last(valid, w, fill),
                       asof_date |-> SetMax(Range(p1.index))]

\* (x * 100).round(2) of the return num/den, in hundredths of a percent:
\* round half to even of 10000 * num / den.
Round2Pct(num, den) ==
    LET x == 10000 * num
        q == x \div den
        r == x % den
    IN  IF 2 * r < den THEN q
        ELSE IF 2 * r > den THEN q + 1
        ELSE IF q % 2 = 0 THEN q ELSE q + 1

\* df = returns.reset_index(); df["Return"] = (df["Return"] * 100).round(2)
build_dataframe(rets) ==
    [i \in DOMAIN rets |->
        [Ticker |-> rets[i].Ticker, Return |-> Round2Pct(rets[i].num, rets[i].den)]]

(***************************************************************************)
(* Values the variables hold while a specification does not use them.      *)
(***************************************************************************)
\* a path at which os.path.exists is false
NoFile == [exists |-> FALSE, lines |-> <<>>]

NoFetch == tickers = <<>> /\ responses = <<>>
NoReturns == returns = <<>> /\ asof_date = NoDate /\ df = <<>>
NoRanking == top = <<>> /\ bot = <<>>
NoSnapshot ==
    /\ index_choice = None
    /\ files = [i \in Indices |-> NoFile]
    /\ new_entries = <<>>
NoSelection ==
    /\ session_state = [k \in {"prev_top_selected_ticker",
                               "prev_bot_selected_ticker", "last_clicked"} |-> Missing]
    /\ sel_top = None
    /\ sel_bot = None
    /\ ticker_choice = None
    /\ grid_changed = {}

(***************************************************************************)
(* SpecReturns: compute_returns and its caller (lines 63-72, 115-124) on   *)
(* every price matrix of at most MaxRows rows.                             *)
(***************************************************************************)
ReturnsColumns == <<"A", "B">>

\* the price matrices with columns cols and n rows, dated 1..n
PriceMatrices(cols, n) ==
    {[columns |-> cols, index |-> [i \in 1..n |-> i], data |-> d] :
        d \in [Range(cols) -> [1..n -> PriceValues \cup {NaN}]]}

InitReturns ==
    /\ pc = "start"
    /\ fill_method \in {"pad", "none"}
    /\ \E n \in 1..MaxRows : prices \in PriceMatrices(ReturnsColumns, n)
    /\ window \in 1..MaxWindow
    /\ NoFetch /\ NoReturns /\ NoRanking /\ NoSnapshot /\ NoSelection

\* returns, asof_date = compute_returns(prices, window)
ComputeReturns ==
    /\ pc = "start"
    /\ LET res == compute_returns(prices, window, fill_method)
       IN  /\ returns' = res.returns
           /\ asof_date' = res.asof_date
    /\ pc' = "computed"
    /\ UNCHANGED <<fill_method, tickers, responses, prices, window, df, top, bot,
                   index_choice, files, new_entries, session_state, sel_top,
                   sel_bot, ticker_choice,
                   grid_changed>>

\* if returns.empty: st.stop(); else build the dataframe
ReturnsCheck ==
    /\ pc = "computed"
    /\ IF returns = <<>>
       THEN pc' = "stopped" /\ df' = df
       ELSE pc' = "ranking" /\ df' = build_dataframe(returns)
    /\ UNCHANGED <<fill_method, tickers, responses, prices, window, returns,
                   asof_date, top, bot, index_choice, files, new_entries,
                   session_state, sel_top, sel_bot, ticker_choice,
                   grid_changed>>

NextReturns == ComputeReturns \/ ReturnsCheck

SpecReturns == InitReturns /\ [][NextReturns]_vars

\* the input matrix's price of ticker t, k rows before the last row
PriceBack(t, k) ==
    LET n == Len(prices.index)
    IN  IF n - k >= 1 THEN prices.data[t][n - k] ELSE NaN

\* C1: whenever compute_returns returns a non-sentinel result, the return of
\* every ticker in it is (price in the last row) / (price `window` rows
\* earlier) - 1, and the caller's Return is that times 100, rounded to 2
\* decimals.
C1_ReturnIsLastRowOverEarlierRow ==
    (pc # "start" /\ asof_date # NoDate) =>
        \A i \in DOMAIN returns :
            LET last == PriceBack(returns[i].Ticker, 0)
                earlier == PriceBack(returns[i].Ticker, window)
            IN  /\ last # NaN
                /\ earlier # NaN
                /\ returns[i].num * earlier = (last - earlier) * returns[i].den
                /\ pc = "ranking" =>
                       df[i].Return = Round2Pct(last - earlier, earlier)

\* C2: a ticker column with fewer than window+1 non-missing values never
\* appears in the ReturnsTable returned by compute_returns.
C2_ShortColumnsExcluded ==
    pc # "start" =>
        \A i \in DOMAIN returns :
            NonMissing(prices, returns[i].Ticker) >= window + 1

C2_Witness ==
    /\ pc = "computed"
    /\ returns # <<>>
    /\ \E t \in Range(prices.columns) :
          /\ NonMissing(prices, t) > 0
          /\ NonMissing(prices, t) < window + 1
          /\ \A i \in DOMAIN returns : returns[i].Ticker # t

\* the precondition of the insufficient-data result
InsufficientData ==
    \/ Len(prices.index) <= window
    \/ \A t \in Range(prices.columns) : NonMissing(prices, t) < window + 1

\* C3: with `window` or fewer rows, or no column of at least window+1
\* non-missing values, compute_returns returns the sentinel (empty table, no
\* as-of date), and the caller stops before ranking.
C3_InsufficientDataSentinel ==
    (pc # "start" /\ InsufficientData) =>
        /\ returns = <<>>
        /\ asof_date = NoDate
        /\ pc # "ranking"

C3_Witness ==
    /\ pc = "stopped"
    /\ Len(prices.index) > window
    /\ \E t \in Range(prices.columns) : NonMissing(prices, t) > 0
    /\ \A t \in Range(prices.columns) : NonMissing(prices, t) < window + 1
    /\ returns = <<>>
    /\ asof_date = NoDate

(***************************************************************************)
(* Ranking: df.nlargest(10, "Return") and df.nsmallest(10, "Return").      *)
(* pandas (SelectNSeries.compute) has two paths.  With n < len(df) it      *)
(* takes the positions whose key is at most the n-th smallest key and      *)
(* orders them with a stable mergesort.  With n >= len(df) it returns      *)
(* sort_values(ascending=...).head(n), whose default kind="quicksort" is   *)
(* not a stable sort: the order among equal keys is whatever the numpy     *)
(* build produces.                                                         *)
(***************************************************************************)
\* positions 1..Len(keys) ordered by key, ties in position order (mergesort)
RECURSIVE StableOrder(_, _)
StableOrder(keys, done) ==
    LET rest == DOMAIN keys \ Range(done)
    IN  IF rest = {} THEN done
        ELSE LET nxt == CHOOSE i \in rest :
                            \A j \in rest : keys[i] < keys[j] \/ (keys[i] = keys[j] /\ i <= j)
             IN  StableOrder(keys, Append(done, nxt))

\* every ordering of the positions with the keys ascending (quicksort)
SortedOrders(keys) ==
    {perm \in [DOMAIN keys -> DOMAIN keys] :
        /\ \A i, j \in DOMAIN keys : i # j => perm[i] # perm[j]
        /\ \A i, j \in DOMAIN keys : i < j => keys[perm[i]] <= keys[perm[j]]}

\* frame.take(indexer)
Take(frame, inds) == [i \in DOMAIN inds |-> frame[inds[i]]]

\* the results SelectN can return for the n smallest keys
SelectN(frame, keys, n) ==
    IF n >= Len(frame)
    THEN {Take(frame, perm) : perm \in SortedOrders(keys)}
    ELSE LET order == StableOrder(keys, <<>>)
             kth_val == keys[order[n]]
             ns == SelectSeq(order, LAMBDA i : keys[i] <= kth_val)
         IN  {Take(frame, SubSeq(ns, 1, n))}

\* df.nlargest(n, "Return"): works on the negated values
nlargest(frame, n) == SelectN(frame, [i \in DOMAIN frame |-> 0 - frame[i].Return], n)

\* df.nsmallest(n, "Return")
nsmallest(frame, n) == SelectN(frame, [i \in DOMAIN frame |-> frame[i].Return], n)

(***************************************************************************)
(* SpecRank: the ranking (lines 126-128) on every returns table of at most *)
(* MaxDfLen rows.                                                          *)
(***************************************************************************)
RankTickers == <<"A", "B", "C", "D", "E">>
ReturnValues == {-6667, 0, 20000}

ReturnsTables ==
    UNION {{[i \in 1..n |-> [Ticker |-> RankTickers[i], Return |-> r[i]]] :
                r \in [1..n -> ReturnValues]} : n \in 1..MaxDfLen}

InitRank ==
    /\ pc = "ranking"
    /\ df \in ReturnsTables
    /\ fill_method = "none"
    /\ prices = EmptyFrame
    /\ window = 1
    /\ returns = <<>> /\ asof_date = NoDate
    /\ NoFetch /\ NoRanking /\ NoSnapshot /\ NoSelection

\* top = df.nlargest(10, "Return"); bot = df.nsmallest(10, "Return")
Rank ==
    /\ pc = "ranking"
    /\ top' \in nlargest(df, TopN)
    /\ bot' \in nsmallest(df, TopN)
    /\ pc' = "ranked"
    /\ UNCHANGED <<fill_method, tickers, responses, prices, window, returns,
                   asof_date, df, index_choice, files, new_entries,
                   session_state, sel_top, sel_bot, ticker_choice,
                   grid_changed>>

NextRank == Rank

SpecRank == InitRank /\ [][NextRank]_vars

\* position of the row of ticker t in df
RowOf(t) == CHOOSE i \in DOMAIN df : df[i].Ticker = t

\* row a of df comes before row b: smaller key first (the key is the Return
\* times sign), rows of equal key in df order
Before(sign, a, b) ==
    \/ sign * df[a].Return < sign * df[b].Return
    \/ (df[a].Return = df[b].Return /\ a < b)

\* list is the rows of df that come first under Before, in that order
IsRanking(list, sign) ==
    /\ Len(list) = (IF Len(df) < TopN THEN Len(df) ELSE TopN)
    /\ \A i \in DOMAIN list : \E k \in DOMAIN df : list[i] = df[k]
    /\ \A i, j \in DOMAIN list :
          i < j => Before(sign, RowOf(list[i].Ticker), RowOf(list[j].Ticker))
    /\ \A k \in DOMAIN df :
          (\A i \in DOMAIN list : list[i] # df[k]) =>
              \A i \in DOMAIN list : Before(sign, RowOf(list[i].Ticker), k)

\* C4: Winners are the N highest returns in descending order, Losers the N
\* lowest in ascending order (all rows when fewer than N exist), rows of
\* equal return in the order they have in the ReturnsTable.
C4_RankedListsStable ==
    pc = "ranked" => (IsRanking(top, 0 - 1) /\ IsRanking(bot, 1))

(***************************************************************************)
(* fetch_prices (lines 46-61).  What yf.download answers for one batch:    *)
(*   [kind |-> "raise"]   the call raises (nothing in fetch_prices or its  *)
(*                        caller catches it)                               *)
(*   [kind |-> "empty"]   an empty DataFrame                               *)
(*   [kind |-> "multi", frame |-> f]  per-ticker columns (MultiIndex),     *)
(*                        f holding the Close series of each ticker        *)
(*   [kind |-> "flat", frame |-> f]   flat columns, f the one Close column *)
(***************************************************************************)
\* tickers[i:i+chunk] for i in range(0, len(tickers), chunk)
Batches(tks, chunk) ==
    [b \in 1..((Len(tks) + chunk - 1) \div chunk) |->
        SubSeq(tks, (b - 1) * chunk + 1,
               IF b * chunk < Len(tks) THEN b * chunk ELSE Len(tks))]

\* the frame one batch contributes to all_prices
Closes(batch, resp) ==
    IF resp.kind = "multi"
    THEN SelectColumns(resp.frame,
             SelectSeq(batch, LAMBDA t : t \in Range(resp.frame.columns)))
    ELSE [columns |-> <<batch[1]>>, index |-> resp.frame.index,
          data |-> [t \in {batch[1]} |-> resp.frame.data["Close"]]]

\* the dates of a set, in ascending order
RECURSIVE SortedDates(_)
SortedDates(S) ==
    IF S = {} THEN <<>>
    ELSE LET m == SetMax(S) IN Append(SortedDates(S \ {m}), m)

\* value of column t of frame at date d, NaN where the frame has no such row
At(frame, t, d) ==
    IF \E k \in DOMAIN frame.index : frame.index[k] = d
    THEN frame.data[t][CHOOSE k \in DOMAIN frame.index : frame.index[k] = d]
    ELSE NaN

RECURSIVE AllColumns(_)
AllColumns(frames) ==
    IF frames = <<>> THEN <<>> ELSE Head(frames).columns \o AllColumns(Tail(frames))

\* pd.concat(frames, axis=1): the columns side by side, rows joined on the
\* union of the dates
concat(frames) ==
    LET idx == SortedDates(UNION {Range(frames[i].index) : i \in DOMAIN frames})
        owner(t) == frames[CHOOSE i \in DOMAIN frames : t \in Range(frames[i].columns)]
        cols == AllColumns(frames)
    IN  [columns |-> cols, index |-> idx,
         data |-> [t \in Range(cols) |-> [k \in DOMAIN idx |-> At(owner(t), t, idx[k])]]]

\* the loop of fetch_prices from batch b on: the frames appended to
\* all_prices, or raised when a download raises
RECURSIVE FetchLoop(_, _, _)
FetchLoop(batches, resps, b) ==
    IF b > Len(batches) THEN [raised |-> FALSE, all_prices |-> <<>>]
    ELSE IF resps[b].kind = "raise" THEN [raised |-> TRUE, all_prices |-> <<>>]
    ELSE LET rest == FetchLoop(batches, resps, b + 1)
         IN  IF resps[b].kind = "empty" THEN rest
             ELSE [raised |-> rest.raised,
                   all_prices |-> <<Closes(batches[b], resps[b])>> \o rest.all_prices]

fetch_prices(tks, resps, chunk) ==
    LET loop == FetchLoop(Batches(tks, chunk), resps, 1)
    IN  IF loop.raised THEN [raised |-> TRUE, frame |-> EmptyFrame]
        ELSE IF loop.all_prices = <<>> THEN [raised |-> FALSE, frame |-> EmptyFrame]
        ELSE [raised |-> FALSE, frame |-> concat(loop.all_prices)]

(***************************************************************************)
(* SpecFetch: fetch_prices on every list of at most three tickers and      *)
(* every answer of the price source per batch.                             *)
(***************************************************************************)
FetchDates == {<<1>>, <<2>>, <<1, 2>>}

FramesOver(cols, dates, values) ==
    {[columns |-> cols, index |-> dates, data |-> d] :
        d \in [Range(cols) -> [DOMAIN dates -> values]]}

\* the non-empty subsequences of a batch
SubBatches(batch) ==
    {SelectSeq(batch, LAMBDA t : t \in S) : S \in (SUBSET Range(batch)) \ {{}}}

\* what yf.download can answer for a batch
ResponsesFor(batch, dateSets, values) ==
    {[kind |-> "raise"], [kind |-> "empty"]}
    \cup UNION {{[kind |-> "multi", frame |-> f] : f \in FramesOver(cols, dates, values)} :
                    cols \in SubBatches(batch), dates \in dateSets}
    \cup UNION {{[kind |-> "flat", frame |-> f] : f \in FramesOver(<<"Close">>, dates, values)} :
                    dates \in dateSets}

\* one answer per batch, from batch b on
RECURSIVE FetchAnswers(_, _)
FetchAnswers(batches, b) ==
    IF b > Len(batches) THEN {<<>>}
    ELSE {<<r>> \o rest : r \in ResponsesFor(batches[b], FetchDates, {NaN, 1}),
                          rest \in FetchAnswers(batches, b + 1)}

InitFetch ==
    /\ pc = "start"
    /\ \E n \in 1..Len(Universe) : tickers = SubSeq(Universe, 1, n)
    /\ responses \in FetchAnswers(Batches(tickers, ChunkSize), 1)
    /\ fill_method = "none"
    /\ prices = EmptyFrame
    /\ window = 1
    /\ NoReturns /\ NoRanking /\ NoSnapshot /\ NoSelection

\* prices = fetch_prices(tickers, lookback=200)
FetchPrices ==
    /\ pc = "start"
    /\ LET res == fetch_prices(tickers, responses, ChunkSize)
       IN  IF res.raised
           THEN pc' = "raised" /\ prices' = prices
           ELSE pc' = "fetched" /\ prices' = res.frame
    /\ UNCHANGED <<fill_method, tickers, responses, window, returns, asof_date,
                   df, top, bot, index_choice, files, new_entries,
                   session_state, sel_top, sel_bot, ticker_choice,
                   grid_changed>>

NextFetch == FetchPrices

SpecFetch == InitFetch /\ [][NextFetch]_vars

\* the columns of the batches from b on whose download gave data
RECURSIVE SucceededColumns(_, _, _)
SucceededColumns(batches, resps, b) ==
    IF b > Len(batches) THEN <<>>
    ELSE (IF resps[b].kind \in {"raise", "empty"} THEN <<>>
          ELSE IF resps[b].kind = "flat" THEN <<batches[b][1]>>
          ELSE SelectSeq(batches[b], LAMBDA t : t \in Range(resps[b].frame.columns)))
         \o SucceededColumns(batches, resps, b + 1)

\* C9: a batch whose download fails or returns no data is skipped without
\* aborting the call; the returned matrix holds the columns of exactly the
\* batches that succeeded.
C9_FailedBatchesSkipped ==
    pc # "start" =>
        /\ pc = "fetched"
        /\ prices.columns = SucceededColumns(Batches(tickers, ChunkSize), responses, 1)

(***************************************************************************)
(* One run of the script (lines 93-203).                                   *)
(***************************************************************************)
\* names["Ticker"].tolist() of the chosen index
Constituents(idx) ==
    IF idx = "Nasdaq-100" THEN <<"A", "B", "C">> ELSE <<"B", "D">>

\* strings pd.read_csv reads as a missing value
NaStrings == {"", "NA", "N/A", "NULL", "NaN", "nan", "null", "None"}

\* top.to_csv(prev_file, index=False): one line per row
to_csv(rows) == rows

\* pd.read_csv(prev_file)["Ticker"]
read_csv_tickers(lines) ==
    [i \in DOMAIN lines |-> IF lines[i].Ticker \in NaStrings THEN "nan" ELSE lines[i].Ticker]

\* the new entries against a snapshot that is read after it was overwritten
new_top_entries_after_write(rows, lines) ==
    LET previous == Range(read_csv_tickers(to_csv(rows)))
        fresh == SelectSeq(rows, LAMBDA r : r.Ticker \notin previous)
    IN  [i \in DOMAIN fresh |-> fresh[i].Ticker]

\* top[~top["Ticker"].isin(previous_top["Ticker"])]["Ticker"].tolist()
new_top_entries(rows, lines) ==
    LET previous == Range(read_csv_tickers(lines))
        fresh == SelectSeq(rows, LAMBDA r : r.Ticker \notin previous)
    IN  [i \in DOMAIN fresh |-> fresh[i].Ticker]

\* the novelty report: empty when no snapshot exists
novelty(rows, file) ==
    IF ~file.exists THEN <<>> ELSE new_top_entries(rows, file.lines)

\* the snapshot after a run that writes it only when it reports novelty
write_snapshot_if_new(rows, file) ==
    IF file.exists /\ new_top_entries(rows, file.lines) = <<>>
    THEN file
    ELSE [exists |-> TRUE, lines |-> to_csv(rows)]

\* the snapshot after the run: top.to_csv(prev_file), unconditionally
write_snapshot(rows, file) == [exists |-> TRUE, lines |-> to_csv(rows)]

\* grid_response["selected_rows"]: no selected row or, once the user clicks
\* in the grids, one row of the list the grid shows
GridResponses(rows, clicks) ==
    {<<>>} \cup (IF clicks THEN {<<rows[i]>> : i \in DOMAIN rows} ELSE {})

\* get_selected_ticker (lines 75-85)
get_selected_ticker(selected_rows) ==
    IF selected_rows = <<>> THEN None ELSE selected_rows[1].Ticker

\* lines 163-169: initialize session state keys if missing
init_session(ss) == [k \in DOMAIN ss |-> IF ss[k] = Missing THEN None ELSE ss[k]]

\* line 172: sel_top != st.session_state["prev_top_selected_ticker"]
top_changed(ss, st) == st # ss["prev_top_selected_ticker"]

\* line 177: sel_bot != st.session_state["prev_bot_selected_ticker"]
bot_changed(ss, sb) == sb # ss["prev_bot_selected_ticker"]

\* the grids whose `if` at lines 172 and 177 is taken
changed_grids(ss, st, sb) ==
    {g \in {"top"} : top_changed(init_session(ss), st)}
    \cup {g \in {"bot"} : bot_changed(init_session(ss), sb)}

\* lines 172-175 without the comparison
update_top_always(ss, st) ==
    [ss EXCEPT !["prev_top_selected_ticker"] = st, !["last_clicked"] = "top"]

\* lines 172-175
update_top(ss, st) ==
    IF top_changed(ss, st)
    THEN [ss EXCEPT !["prev_top_selected_ticker"] = st, !["last_clicked"] = "top"]
    ELSE ss

\* lines 177-180 without the assignment to last_clicked
update_bot_keeps_last(ss, sb) ==
    IF bot_changed(ss, sb)
    THEN [ss EXCEPT !["prev_bot_selected_ticker"] = sb]
    ELSE ss

\* lines 177-180
update_bot(ss, sb) ==
    IF bot_changed(ss, sb)
    THEN [ss EXCEPT !["prev_bot_selected_ticker"] = sb, !["last_clicked"] = "bot"]
    ELSE ss

\* lines 163-180 with the two `if` blocks in the other order
update_selection_top_last(ss, st, sb) == update_top(update_bot(init_session(ss), sb), st)

\* lines 163-180
update_selection(ss, st, sb) == update_bot(update_top(init_session(ss), st), sb)

\* lines 183-190; `sel_top or sel_bot` is sel_bot when sel_top is None
choose_ticker(ss, st, sb) ==
    IF ss["last_clicked"] = "top" THEN st
    ELSE IF ss["last_clicked"] = "bot" THEN sb
    ELSE IF st # None THEN st ELSE sb

\* a run that ends before the ranking, at st.stop() or on an exception
Stops(where) ==
    /\ pc' = where
    /\ top' = <<>> /\ bot' = <<>>
    /\ new_entries' = <<>>
    /\ sel_top' = None /\ sel_bot' = None /\ ticker_choice' = None
    /\ grid_changed' = {}
    /\ UNCHANGED <<files, session_state>>

\* The whole script, for the widget values idx and w, the constituent page
\* loading or not, the price source answering resps, and the user clicking
\* in the grids or not.  The price matrix, the returns and the dataframe are
\* locals of the run that no later run reads; the run keeps them in LET
\* definitions and records the lists it shows, its novelty report, the
\* snapshot, the session state and the ticker it charts.  The Company column
\* merged in at line 123 is carried along unchanged and left out.
Run(idx, w, names_ok, resps, clicks) ==
    /\ index_choice' = idx
    /\ window' = w
    /\ UNCHANGED <<fill_method, tickers, responses, prices, returns, asof_date, df>>
    /\ IF ~names_ok THEN Stops("no_constituents")
       ELSE LET fetched == fetch_prices(Constituents(idx), resps, ChunkSize)
            IN  IF fetched.raised THEN Stops("exception")
                ELSE IF IsEmpty(fetched.frame) THEN Stops("no_prices")
                ELSE LET res == compute_returns(fetched.frame, w, fill_method)
                     IN  IF res.returns = <<>> THEN Stops("not_enough_data")
                         ELSE LET frame == build_dataframe(res.returns)
                              IN  /\ top' \in nlargest(frame, TopN)
                                  /\ bot' \in nsmallest(frame, TopN)
                                  /\ new_entries' = novelty(top', files[idx])
                                  /\ files' = [files EXCEPT ![idx] = write_snapshot(top', files[idx])]
                                  /\ \E grid_top \in GridResponses(top', clicks) :
                                         sel_top' = get_selected_ticker(grid_top)
                                  /\ \E grid_bot \in GridResponses(bot', clicks) :
                                         sel_bot' = get_selected_ticker(grid_bot)
                                  /\ grid_changed' = changed_grids(session_state, sel_top', sel_bot')
                                  /\ session_state' = update_selection(session_state, sel_top', sel_bot')
                                  /\ ticker_choice' = choose_ticker(session_state', sel_top', sel_bot')
                                  /\ pc' = "rendered"

\* a new browser session: st.session_state starts without the keys
NewSession ==
    /\ session_state' = [k \in DOMAIN session_state |-> Missing]
    /\ pc' = "new_session"
    /\ top' = <<>> /\ bot' = <<>>
    /\ new_entries' = <<>>
    /\ sel_top' = None /\ sel_bot' = None /\ ticker_choice' = None
    /\ grid_changed' = {}
    /\ UNCHANGED <<fill_method, tickers, responses, prices, window, returns,
                   asof_date, df, index_choice, files>>

\* price series of the runs: two trading days per ticker
RunSeries == {<<1, 1>>, <<1, 3>>}

\* answers of the price source in the runs
RunResponses(batch, series) ==
    {[kind |-> "raise"], [kind |-> "empty"]}
    \cup {[kind |-> "multi", frame |-> [columns |-> batch, index |-> <<1, 2>>, data |-> d]] :
            d \in [Range(batch) -> series]}

\* one answer per batch, from batch b on
RECURSIVE RunAnswers(_, _, _)
RunAnswers(batches, series, b) ==
    IF b > Len(batches) THEN {<<>>}
    ELSE {<<r>> \o rest : r \in RunResponses(batches[b], series),
                          rest \in RunAnswers(batches, series, b + 1)}

RunInit ==
    /\ pc = "new_session"
    /\ fill_method \in {"pad", "none"}
    /\ prices = EmptyFrame
    /\ window = 1
    /\ NoFetch /\ NoReturns /\ NoRanking /\ NoSnapshot /\ NoSelection

(***************************************************************************)
(* SpecRun: runs of the script in which no row is selected in the grids    *)
(* (page loads, slider and radio changes), over every answer of the price  *)
(* source.                                                                 *)
(***************************************************************************)
RunUnselected ==
    \E idx \in Indices, w \in 1..MaxWindow :
        \/ Run(idx, w, FALSE, <<>>, FALSE)
        \/ \E resps \in RunAnswers(Batches(Constituents(idx), ChunkSize), RunSeries, 1) :
               Run(idx, w, TRUE, resps, FALSE)

NextRun == RunUnselected

SpecRun == RunInit /\ [][NextRun]_vars

(***************************************************************************)
(* SpecSel: one browser session after another on the S&P 500 page, the     *)
(* grids reporting any selection they can.                                 *)
(***************************************************************************)
SelInit == RunInit

RunSelected ==
    \E w \in 1..MaxWindow :
        \/ Run("S&P 500", w, FALSE, <<>>, TRUE)
        \/ \E resps \in RunAnswers(Batches(Constituents("S&P 500"), ChunkSize), RunSeries, 1) :
               Run("S&P 500", w, TRUE, resps, TRUE)

NextSel == RunSelected \/ NewSession

SpecSel == SelInit /\ [][NextSel]_vars

(***************************************************************************)
(* Claims about the snapshot and the novelty report (SpecRun).             *)
(***************************************************************************)
TickersOf(rows) == {rows[i].Ticker : i \in DOMAIN rows}

\* C5: in every run that reaches the ranking, the novelty report holds
\* exactly the tickers of the current Winners that are not in the snapshot
\* the previous run left for the same index, and is empty when there is no
\* snapshot.
C5_NoveltyIsSetDifference ==
    [][pc' = "rendered" =>
          Range(new_entries') =
              IF files[index_choice'].exists
              THEN TickersOf(top') \ TickersOf(files[index_choice'].lines)
              ELSE {}]_vars

C5_Witness ==
    /\ pc = "rendered"
    /\ new_entries # <<>>
    /\ Len(new_entries) < Len(top)

\* C6: a run that reaches the ranking overwrites the snapshot of its index
\* with its Winners list, whether or not it reported any novelty; no other
\* run and no other index's run touches it, so the snapshot is the Winners
\* list of the most recent run that reached the ranking.
C6_SnapshotIsLastWinners ==
    [][IF pc' = "rendered"
       THEN /\ files'[index_choice'] = [exists |-> TRUE, lines |-> top']
            /\ \A i \in Indices \ {index_choice'} : files'[i] = files[i]
       ELSE files' = files]_vars

C6_Witness ==
    /\ pc = "rendered"
    /\ new_entries # <<>>
    /\ files[index_choice] = [exists |-> TRUE, lines |-> top]
    /\ \A i \in Indices : files[i].exists

(***************************************************************************)
(* Claims about the selection tracking (SpecSel).                          *)
(***************************************************************************)
\* the value recorded under key k, None while the key is missing
Recorded(ss, k) == IF ss[k] = Missing THEN None ELSE ss[k]

TopReportsChange == sel_top' # Recorded(session_state, "prev_top_selected_ticker")
BotReportsChange == sel_bot' # Recorded(session_state, "prev_bot_selected_ticker")

TopSelected == session_state'["last_clicked"] = "top" /\ ticker_choice' = sel_top'
BottomSelected == session_state'["last_clicked"] = "bot" /\ ticker_choice' = sel_bot'

\* C7 as stated: after any render in which the Winners list reports a
\* changed selection the state is TopSelected(new selection), and after a
\* changed Losers selection BottomSelected(new selection).
C7_ChangedListIsSelected ==
    [][pc' = "rendered" =>
          /\ TopReportsChange => TopSelected
          /\ BotReportsChange => BottomSelected]_vars

\* C7 amended: a changed Losers selection leads to BottomSelected(new
\* selection); a changed Winners selection leads to TopSelected(new
\* selection) when the Losers list reports no change in the same render.
C7_ChangedListIsSelectedBotFirst ==
    [][pc' = "rendered" =>
          /\ BotReportsChange => BottomSelected
          /\ (TopReportsChange /\ ~BotReportsChange) => TopSelected]_vars

C7_Witness ==
    /\ pc = "rendered"
    /\ grid_changed = {"top"}
    /\ sel_top # None
    /\ sel_bot # None
    /\ session_state["last_clicked"] = "top"
    /\ ticker_choice = sel_top

\* C8: a render in which both lists report the selection already recorded
\* leaves prev_top_selected_ticker, prev_bot_selected_ticker and
\* last_clicked as they were.
C8_UnchangedSelectionIsNoOp ==
    [][(pc' = "rendered" /\ ~TopReportsChange /\ ~BotReportsChange) =>
          \A k \in DOMAIN session_state :
              Recorded(session_state', k) = Recorded(session_state, k)]_vars

C8_Witness ==
    /\ pc = "rendered"
    /\ grid_changed = {}
    /\ session_state["last_clicked"] = "bot"
    /\ sel_top # None
    /\ ticker_choice = sel_bot
    /\ sel_bot # None

\* C10: after the update step of a render, last_clicked is None only if
\* neither list has a selection, so the fallback `sel_top or sel_bot` yields
\* no ticker and a ticker is charted only with last_clicked "top" or "bot".
C10_NoLastClickedNoSelection ==
    pc = "rendered" =>
        /\ session_state["last_clicked"] = None => (sel_top = None /\ sel_bot = None)
        /\ ticker_choice # None => session_state["last_clicked"] \in {"top", "bot"}

C10_Witness ==
    /\ pc = "rendered"
    /\ session_state["last_clicked"] = None
    /\ sel_top = None
    /\ sel_bot = None
    /\ ticker_choice = None

====
